---- MODULE Spec2Model ----
(***************************************************************************)
(* A model of ankidecker (src/main.py): the definition fetchers, the       *)
(* on-disk definition cache of DeepInfraFetcher, the generate_output       *)
(* pipeline and the `with get_fetcher() as fetcher` scope of main.         *)
(*                                                                         *)
(* Text is a sequence of tokens: " " is a whitespace character, any other  *)
(* token is a visible character or a fixed piece of markup.  A Python dict *)
(* is a sequence of <<key, value>> pairs with distinct keys, in insertion  *)
(* order.  The cache file is either absent, or holds a JSON object (its    *)
(* members in file order, duplicate names allowed as JSON allows them), or *)
(* holds text that json.load rejects.                                      *)
(***************************************************************************)
EXTENDS Integers, Sequences, FiniteSets, TLC

\* ------------------------------------------------------------------ bounds
\* The longest list of terms load_terms hands to the pipeline.
MaxTerms == 3
\* The clock stops advancing at this reading.
MaxTime == 32

\* ------------------------------------------------------- program constants
\* self._save_interval
SaveInterval == 15
\* the one status code fetch treats as success
StatusOK == 200

\* ------------------------------------------------------------- input sets
Terms == {<<"A">>, <<"B">>, <<"C">>}
\* Lines of the input file: a term, a term with surrounding blanks, a blank line.
InputLines == {<<"A">>, <<" ", "B", " ">>, <<"C">>, <<" ">>}
\* os.getenv("DEEPINFRA_API_KEY"): unset, set to the empty string, set.
NoneKey == "<None>"
ApiKeys == {NoneKey, "", "sk"}
\* message content returned by the remote endpoint
RawContents == {<<"x">>, <<" ", "y", " ">>}
\* status codes of failed requests
FailureStatuses == {500}
Responses == [status : {StatusOK} \cup FailureStatuses, content : RawContents]
\* how far the clock moves between two fetches: exactly the save interval, or
\* just over it (no move at all is two fetches at one clock reading)
TickSteps == {SaveInterval, SaveInterval + 1}
\* how far the clock moves while a periodic flush writes the file, between
\* the reading that is tested and the reading that is stored
FlushSteps == {0, 1}

OutModes == {"<None>", "debug", "anki"}
Extensions == {".apkg", ".txt", ".csv"}

\* args.out_mode / args.output_path before get_output_strategy has read them
Unread == "<unread>"

NoError == "none"

\* ------------------------------------------------------------------- text
IsSpace(ch) == ch = " "

RECURSIVE lstrip(_)
lstrip(s) == IF s # <<>> /\ IsSpace(Head(s)) THEN lstrip(Tail(s)) ELSE s

RECURSIVE rstrip(_)
rstrip(s) ==
    IF s # <<>> /\ IsSpace(s[Len(s)]) THEN rstrip(SubSeq(s, 1, Len(s) - 1)) ELSE s

\* str.strip()
strip(s) == rstrip(lstrip(s))

\* markdown2.markdown on one-line text without markdown syntax: text that is
\* only whitespace renders as a bare newline, any other text as one paragraph
\* whose leading whitespace is dropped.
markdown(s) ==
    IF lstrip(s) = <<>> THEN <<"\n">>
    ELSE <<"<p>">> \o lstrip(s) \o <<"</p>", "\n">>

\* ------------------------------------------------------------------ dicts
DictKeys(d) == {d[i][1] : i \in 1..Len(d)}

\* term in self.cache
DictHas(d, k) == k \in DictKeys(d)

\* self.cache[term]
DictGet(d, k) == d[CHOOSE i \in 1..Len(d) : d[i][1] = k][2]

\* self.cache[term] = definition
DictSet(d, k, v) ==
    IF DictHas(d, k)
    THEN [i \in 1..Len(d) |-> IF d[i][1] = k THEN <<k, v>> ELSE d[i]]
    ELSE Append(d, <<k, v>>)

\* The mapping a dict stands for, as a set of <<key, value>> pairs.
DictItems(d) == {d[i] : i \in 1..Len(d)}

\* ------------------------------------------------------------- cache file
AbsentFile == [exists |-> FALSE, valid |-> FALSE, members |-> <<>>]
GarbageFile == [exists |-> TRUE, valid |-> FALSE, members |-> <<>>]
ObjectFile(m) == [exists |-> TRUE, valid |-> TRUE, members |-> m]

\* json.dump as it would be if only the newest entry were written.
json_dump_last(d) == ObjectFile(IF d = <<>> THEN <<>> ELSE << d[Len(d)] >>)

\* json.dump(self.cache, f): the members of the object, in the dict's order.
json_dump(d) == ObjectFile(d)

\* json.load(f) of a file holding an object: members are inserted in file
\* order, a repeated name overwrites the value of its first occurrence.
RECURSIVE json_members(_, _)
json_members(m, acc) ==
    IF m = <<>> THEN acc
    ELSE json_members(Tail(m), DictSet(acc, Head(m)[1], Head(m)[2]))

json_load(file) == json_members(file.members, <<>>)

\* What reading the cache file gives: the entries of the mapping it holds
\* (none when there is no file), or the parser's error and no mapping at all
\* when its text is not a JSON document.
OnDisk(file) ==
    IF ~file.exists
    THEN [raised |-> NoError, items |-> {}]
    ELSE IF file.valid
    THEN [raised |-> NoError, items |-> DictItems(json_load(file))]
    ELSE [raised |-> "JSONDecodeError", items |-> {}]

InitFiles ==
    { AbsentFile,
      GarbageFile,
      ObjectFile(<<>>),
      ObjectFile(<< <<<<"A">>, <<"x">>>> >>),
      ObjectFile(<< <<<<"B">>, <<"y", " ">>>>, <<<<"B">>, <<"x">>>> >>) }

\* ------------------------------------------------------- DeepInfraFetcher
\* `not api_key`
Falsy(k) == k = NoneKey \/ k = ""

\* The fields of a DeepInfraFetcher before __init__ has assigned them.
NoSelf ==
    [api_key |-> NoneKey, cache |-> <<>>, dirty |-> FALSE, last_save_timestamp |-> 0]

\* _load_cache as it would be if a file that does not parse were taken for an
\* empty cache.
load_cache_fallback(file) ==
    IF file.exists /\ file.valid
    THEN [raised |-> NoError, value |-> json_load(file)]
    ELSE [raised |-> NoError, value |-> <<>>]

\* _load_cache: the parsed file, an empty dict when there is no file, and the
\* parser's error when the file does not parse.
load_cache(file) ==
    IF file.exists
    THEN IF file.valid
         THEN [raised |-> NoError, value |-> json_load(file)]
         ELSE [raised |-> "JSONDecodeError", value |-> <<>>]
    ELSE [raised |-> NoError, value |-> <<>>]

\* __init__ as it would be if the cache were loaded before the credential is
\* checked.
init_load_first(api_key, file, t) ==
    LET l == load_cache(file) IN
    IF l.raised # NoError
    THEN [raised |-> l.raised, self |-> NoSelf, loads |-> 1]
    ELSE IF Falsy(api_key)
    THEN [raised |-> "ValueError: API key is required.", self |-> NoSelf, loads |-> 1]
    ELSE [raised |-> NoError,
          self |-> [api_key |-> api_key, cache |-> l.value, dirty |-> FALSE,
                    last_save_timestamp |-> t],
          loads |-> 1]

\* __init__: the credential is checked first, then the cache is loaded, then
\* the dirty flag and the timestamp are set.  `loads` counts the calls of
\* _load_cache.
init(api_key, file, t) ==
    IF Falsy(api_key)
    THEN [raised |-> "ValueError: API key is required.", self |-> NoSelf, loads |-> 0]
    ELSE LET l == load_cache(file) IN
         IF l.raised # NoError
         THEN [raised |-> l.raised, self |-> NoSelf, loads |-> 1]
         ELSE [raised |-> NoError,
               self |-> [api_key |-> api_key, cache |-> l.value, dirty |-> FALSE,
                         last_save_timestamp |-> t],
               loads |-> 1]

\* _save_cache as it would be without the test of the dirty flag.
save_cache_always(self, file) == [file |-> json_dump(self.cache), wrote |-> TRUE]

\* _save_cache: the file after the call, and whether the call wrote it.
save_cache(self, file) ==
    IF self.dirty
    THEN [file |-> json_dump(self.cache), wrote |-> TRUE]
    ELSE [file |-> file, wrote |-> FALSE]

\* _save_cache cut short: open(..., "w") has emptied the file and json.dump
\* has written only part of the text when the process is stopped or the
\* device fails, so what is left is not a JSON document.
save_cache_interrupted(self, file) ==
    IF self.dirty
    THEN [file |-> GarbageFile, wrote |-> TRUE]
    ELSE [file |-> file, wrote |-> FALSE]

\* The cache test as it would be if every term were taken for a miss.
cache_hit_never(self, term) == FALSE

\* fetch, line 88: term in self.cache
cache_hit(self, term) == DictHas(self.cache, term)

\* The hit branch as it would be if the cached text were returned unrendered.
hit_result_raw(self, term) == <<DictGet(self.cache, term), TRUE>>

\* fetch, lines 89-90: the cached text is rendered anew on every hit.
hit_result(self, term) == <<markdown(DictGet(self.cache, term)), TRUE>>

\* fetch, lines 118-119: the generated text, trimmed.
extract(resp) == strip(resp.content)

\* The miss branch as it would be if the definition were not cached.
store_nothing(self, term, definition) == [self EXCEPT !.dirty = TRUE]

\* The miss branch as it would be if the cache were not marked dirty.
store_clean(self, term, definition) ==
    [self EXCEPT !.cache = DictSet(self.cache, term, definition)]

\* The miss branch as it would be if the cache were replaced by the new entry.
store_replace(self, term, definition) ==
    [self EXCEPT !.cache = << <<term, definition>> >>, !.dirty = TRUE]

\* fetch, lines 120-121: the definition is cached and the cache marked dirty.
store(self, term, definition) ==
    [self EXCEPT !.cache = DictSet(self.cache, term, definition), !.dirty = TRUE]

\* The time test as it would be if every miss were taken to be due.
save_due_always(self, t) == TRUE

\* fetch, line 123: more than the save interval has passed since the timestamp.
save_due(self, t) == t - self.last_save_timestamp > SaveInterval

\* fetch, lines 117-126: the request succeeded.  The clock is read twice: t
\* is the reading tested at line 123, t2 the reading stored at line 125 once
\* the file has been written.  `clock` is the last reading the call made.
fetch_success(self, file, term, resp, t, t2) ==
    LET definition == extract(resp)
        updated == store(self, term, definition)
        due == save_due(updated, t)
        saved == save_cache(updated, file)
    IN  [raised |-> NoError,
         self |-> IF due THEN [updated EXCEPT !.last_save_timestamp = t2]
                  ELSE updated,
         file |-> IF due THEN saved.file ELSE file,
         wrote |-> due /\ saved.wrote,
         posted |-> 1, put |-> TRUE,
         clock |-> IF due THEN t2 ELSE t,
         result |-> <<markdown(definition), FALSE>>]

\* fetch, lines 117-124, when the write made by the periodic flush is cut
\* short: the definition is cached and the cache marked dirty, the file is
\* left without a JSON document, line 125 is not reached and the I/O error
\* leaves fetch.
fetch_success_interrupted(self, file, term, resp, t, t2) ==
    LET definition == extract(resp)
        updated == store(self, term, definition)
        saved == save_cache_interrupted(updated, file)
    IN  IF save_due(updated, t)
        THEN [raised |-> "OSError",
              self |-> updated,
              file |-> saved.file,
              wrote |-> saved.wrote,
              posted |-> 1, put |-> TRUE,
              clock |-> t,
              result |-> <<>>]
        ELSE fetch_success(self, file, term, resp, t, t2)

\* The failure branch as it would be if the request were tried a second time
\* before giving up.
fetch_failure_retry(self, file, term, resp, t, t2) ==
    [raised |-> "Exception: Error fetching definition", self |-> self,
     file |-> file, wrote |-> FALSE, posted |-> 2, put |-> FALSE,
     clock |-> t, result |-> <<>>]

\* fetch, lines 127-128: the request failed.
fetch_failure(self, file, term, resp, t, t2) ==
    [raised |-> "Exception: Error fetching definition", self |-> self,
     file |-> file, wrote |-> FALSE, posted |-> 1, put |-> FALSE,
     clock |-> t, result |-> <<>>]

\* fetch, lines 92-128: the term is not cached, the endpoint is asked once.
fetch_miss(self, file, term, resp, t, t2) ==
    IF resp.status = StatusOK
    THEN fetch_success(self, file, term, resp, t, t2)
    ELSE fetch_failure(self, file, term, resp, t, t2)

\* fetch as it would be if a failed request yielded an empty definition
\* instead of raising.
fetch_no_raise(self, file, term, resp, t, t2) ==
    IF cache_hit(self, term)
    THEN [raised |-> NoError, self |-> self, file |-> file, wrote |-> FALSE,
          posted |-> 0, put |-> FALSE, clock |-> t,
          result |-> hit_result(self, term)]
    ELSE IF resp.status = StatusOK
    THEN fetch_success(self, file, term, resp, t, t2)
    ELSE [raised |-> NoError, self |-> self, file |-> file, wrote |-> FALSE,
          posted |-> 1, put |-> FALSE, clock |-> t,
          result |-> <<markdown(<<>>), FALSE>>]

\* fetch as it would be if a cache hit marked the cache dirty.
fetch_hit_dirty(self, file, term, resp, t, t2) ==
    IF cache_hit(self, term)
    THEN [raised |-> NoError, self |-> [self EXCEPT !.dirty = TRUE], file |-> file,
          wrote |-> FALSE, posted |-> 0, put |-> FALSE, clock |-> t,
          result |-> hit_result(self, term)]
    ELSE fetch_miss(self, file, term, resp, t, t2)

\* DeepInfraFetcher.fetch(term) at clock reading t, where resp is what the
\* endpoint answers if it is asked and t2 is what the clock reads once a
\* periodic flush has written the file.  `posted` counts the calls of
\* requests.post, `put` tells whether the cache was assigned to, `wrote`
\* whether the cache file was written.
fetch(self, file, term, resp, t, t2) ==
    IF cache_hit(self, term)
    THEN [raised |-> NoError, self |-> self, file |-> file, wrote |-> FALSE,
          posted |-> 0, put |-> FALSE, clock |-> t,
          result |-> hit_result(self, term)]
    ELSE fetch_miss(self, file, term, resp, t, t2)

\* DeepInfraFetcher.close
close(self, file) == save_cache(self, file)

\* ----------------------------------------------------------- DummyFetcher
\* DummyFetcher.fetch as it would be if it reported a cache hit.
dummy_fetch_from_cache(term) ==
    << <<"Dummy definition for term \"">> \o term \o <<"\"">>, TRUE >>

\* DummyFetcher.fetch
dummy_fetch(term) == << <<"Dummy definition for term \"">> \o term \o <<"\"">>, FALSE >>

\* ------------------------------------------------------- scoped use (with)
\* __enter__ of either fetcher returns the fetcher.
enter(fetcher) == fetcher

\* __exit__ as it would be if DeepInfraFetcher's did not call close().
exit_no_close(fetcher, self, file) ==
    IF fetcher = "DeepInfraFetcher"
    THEN [file |-> file, wrote |-> FALSE, closes |-> 0, returns |-> "None"]
    ELSE [file |-> file, wrote |-> FALSE, closes |-> 1, returns |-> "False"]

\* __exit__ as it would be if it returned True.
exit_suppress(fetcher, self, file) ==
    IF fetcher = "DeepInfraFetcher"
    THEN LET c == save_cache(self, file) IN
         [file |-> c.file, wrote |-> c.wrote, closes |-> 1, returns |-> "True"]
    ELSE [file |-> file, wrote |-> FALSE, closes |-> 1, returns |-> "True"]

\* __exit__ of either fetcher calls close() and returns a value that the with
\* statement tests for truth: False for DummyFetcher, None for
\* DeepInfraFetcher.
exit(fetcher, self, file) ==
    IF fetcher = "DeepInfraFetcher"
    THEN LET c == close(self, file) IN
         [file |-> c.file, wrote |-> c.wrote, closes |-> 1, returns |-> "None"]
    ELSE [file |-> file, wrote |-> FALSE, closes |-> 1, returns |-> "False"]

\* A with statement swallows the exception iff __exit__ returns a true value.
Suppresses(v) == v = "True"

\* ------------------------------------------------------------------- main
\* load_terms: the stripped non-blank lines, in order.
load_terms(lines) ==
    LET kept == SelectSeq(lines, LAMBDA l : strip(l) # <<>>)
    IN  [i \in 1..Len(kept) |-> strip(kept[i])]

\* get_api_key
get_api_key(env) ==
    IF Falsy(env)
    THEN [raised |-> "ValueError: API key not found.", value |-> NoneKey]
    ELSE [raised |-> NoError, value |-> env]

\* get_output_strategy
get_output_strategy(mode, ext) ==
    IF mode = "anki" \/ ext = ".apkg"
    THEN [raised |-> NoError, value |-> "AnkiOutputStrategy"]
    ELSE IF mode = "debug" \/ ext = ".txt"
    THEN [raised |-> NoError, value |-> "DebugOutputStrategy"]
    ELSE [raised |-> "ValueError: Output mode not specified or unsupported.",
          value |-> "none"]

RECURSIVE SeqsUpTo(_, _)
SeqsUpTo(S, n) ==
    IF n = 0 THEN {<<>>}
    ELSE LET shorter == SeqsUpTo(S, n - 1)
         IN  shorter \cup {Append(s, x) : s \in shorter, x \in S}

InputFiles == SeqsUpTo(InputLines, MaxTerms)

\* ------------------------------------------------------------------ state
VARIABLES
    pc,              \* where main is
    now,             \* time.time()
    disk,            \* definition_cache.json
    env_key,         \* os.getenv("DEEPINFRA_API_KEY")
    fetcher_arg,     \* args.fetcher
    input_exists,    \* os.path.exists(args.input_path)
    out_mode,        \* args.out_mode
    out_ext,         \* the extension of args.output_path
    fetcher,         \* the class of the fetcher get_fetcher returned
    self,            \* the fields of the DeepInfraFetcher
    bound,           \* what `with ... as fetcher` bound
    terms,           \* load_terms(args.input_path)
    strategy,        \* get_output_strategy()
    idx,             \* how many terms generate_output has fetched
    terms_with_defs, \* generate_output's list
    statuses,        \* the cache/API status shown per fetched term
    sink,            \* the lists handed to output_strategy.output, in order
    error,           \* the exception unwinding the with block
    raised,          \* the exception that left main
    close_calls,     \* calls of close()
    loads,           \* calls of _load_cache
    posts,           \* requests.post calls, per term
    puts,            \* assignments self.cache[term] = definition
    disk_writes,     \* times the cache file was opened for writing
    reopened         \* the fields of a second DeepInfraFetcher, made on the
                     \* same cache file after the first one was closed

vars ==
    << pc, now, disk, env_key, fetcher_arg, input_exists, out_mode, out_ext, fetcher, self, bound,
       terms, strategy, idx, terms_with_defs, statuses, sink, error, raised,
       close_calls, loads, posts, puts, disk_writes, reopened >>

env == << env_key, fetcher_arg, input_exists, out_mode, out_ext >>
run == << terms, strategy, idx, terms_with_defs, statuses, sink >>
counters == << close_calls, loads, posts, puts, disk_writes >>

\* main starts (pc = "main"), or a caller of the class constructs
\* DeepInfraFetcher(api_key = env_key) itself and uses it as main does
\* (pc = "init").  The output arguments are left open until
\* get_output_strategy reads them.
Init ==
    /\ pc \in {"main", "init"}
    /\ now = 0
    /\ disk \in InitFiles
    /\ env_key \in ApiKeys
    /\ fetcher_arg \in IF pc = "main" THEN {"dummy", "deepinfra"} ELSE {"deepinfra"}
    /\ input_exists \in IF pc = "main" THEN BOOLEAN ELSE {TRUE}
    /\ out_mode = Unread
    /\ out_ext = Unread
    /\ fetcher = "none"
    /\ self = NoSelf
    /\ bound = "none"
    /\ terms = <<>>
    /\ strategy = "none"
    /\ idx = 0
    /\ terms_with_defs = <<>>
    /\ statuses = <<>>
    /\ sink = <<>>
    /\ error = NoError
    /\ raised = NoError
    /\ close_calls = 0
    /\ loads = 0
    /\ posts = [t \in Terms |-> 0]
    /\ puts = 0
    /\ disk_writes = 0
    /\ reopened = NoSelf

\* main, lines 270-272: a missing input file ends the process with status 1.
CheckInput ==
    /\ pc = "main"
    /\ pc' = IF input_exists THEN "get_fetcher" ELSE "exit1"
    /\ UNCHANGED << now, disk, env, reopened, fetcher, self, bound, run, error, raised, counters >>

\* get_fetcher up to the constructor call.
GetFetcher ==
    /\ pc = "get_fetcher"
    /\ IF fetcher_arg = "dummy"
       THEN /\ fetcher' = "DummyFetcher"
            /\ pc' = "enter"
            /\ raised' = raised
       ELSE LET k == get_api_key(env_key) IN
            /\ fetcher' = fetcher
            /\ pc' = IF k.raised = NoError THEN "init" ELSE "raised"
            /\ raised' = k.raised
    /\ UNCHANGED << now, disk, env, reopened, self, bound, run, error, counters >>

\* DeepInfraFetcher(api_key = env_key)
Construct ==
    /\ pc = "init"
    /\ LET r == init(env_key, disk, now) IN
       /\ loads' = loads + r.loads
       /\ self' = r.self
       /\ raised' = r.raised
       /\ fetcher' = IF r.raised = NoError THEN "DeepInfraFetcher" ELSE fetcher
       /\ pc' = IF r.raised = NoError THEN "enter" ELSE "raised"
    /\ UNCHANGED << now, disk, env, reopened, bound, run, error,
                    close_calls, posts, puts, disk_writes >>

\* with get_fetcher() as fetcher:
Enter ==
    /\ pc = "enter"
    /\ bound' = enter(fetcher)
    /\ pc' = "load_terms"
    /\ UNCHANGED << now, disk, env, reopened, fetcher, self, run, error, raised, counters >>

\* terms = load_terms(args.input_path)
LoadTerms ==
    /\ pc = "load_terms"
    /\ \E lines \in InputFiles : terms' = load_terms(lines)
    /\ pc' = "strategy"
    /\ UNCHANGED << now, disk, env, reopened, fetcher, self, bound, strategy, idx,
                    terms_with_defs, statuses, sink, error, raised, counters >>

\* strategy = get_output_strategy()
GetOutputStrategy ==
    /\ pc = "strategy"
    /\ \E mode \in (IF out_mode = Unread THEN OutModes ELSE {out_mode}),
          ext \in (IF out_ext = Unread THEN Extensions ELSE {out_ext}) :
         LET r == get_output_strategy(mode, ext) IN
         /\ strategy' = r.value
         /\ error' = r.raised
         /\ pc' = IF r.raised = NoError THEN "fetch" ELSE "exit"
    /\ UNCHANGED << now, disk, env, reopened, fetcher, self, bound, terms, idx,
                    terms_with_defs, statuses, sink, raised, counters >>

\* Time passes while generate_output runs.
Tick ==
    /\ pc = "fetch"
    /\ \E d \in TickSteps : now + d <= MaxTime /\ now' = now + d
    /\ UNCHANGED << pc, disk, env, reopened, fetcher, self, bound, run, error, raised, counters >>

\* One iteration of generate_output's loop with the DeepInfraFetcher.
FetchRemote ==
    /\ pc = "fetch"
    /\ idx < Len(terms)
    /\ fetcher = "DeepInfraFetcher"
    /\ \E resp \in Responses, w \in FlushSteps :
         LET term == terms[idx + 1]
             r == fetch(self, disk, term, resp, now, now + w)
         IN  /\ now + w <= MaxTime
             /\ now' = r.clock
             /\ self' = r.self
             /\ disk' = r.file
             /\ disk_writes' = disk_writes + (IF r.wrote THEN 1 ELSE 0)
             /\ posts' = [posts EXCEPT ![term] = @ + r.posted]
             /\ puts' = puts + (IF r.put THEN 1 ELSE 0)
             /\ error' = r.raised
             /\ IF r.raised = NoError
                THEN /\ terms_with_defs' = Append(terms_with_defs, <<term, r.result[1]>>)
                     /\ statuses' = Append(statuses, IF r.result[2] THEN "cache" ELSE "API")
                     /\ idx' = idx + 1
                     /\ pc' = pc
                ELSE /\ UNCHANGED << terms_with_defs, statuses, idx >>
                     /\ pc' = "exit"
    /\ UNCHANGED << env, reopened, fetcher, bound, terms, strategy, sink, raised,
                    close_calls, loads >>

\* One iteration of generate_output's loop with the DummyFetcher.
FetchDummy ==
    /\ pc = "fetch"
    /\ idx < Len(terms)
    /\ fetcher = "DummyFetcher"
    /\ LET term == terms[idx + 1]
           r == dummy_fetch(term)
       IN  /\ terms_with_defs' = Append(terms_with_defs, <<term, r[1]>>)
           /\ statuses' = Append(statuses, IF r[2] THEN "cache" ELSE "API")
           /\ idx' = idx + 1
    /\ UNCHANGED << pc, now, disk, env, reopened, fetcher, self, bound, terms, strategy, sink,
                    error, raised, counters >>

\* generate_output, line 203: the loop is over, the list goes to the sink.
Output ==
    /\ pc = "fetch"
    /\ idx = Len(terms)
    /\ sink' = Append(sink, terms_with_defs)
    /\ pc' = "exit"
    /\ UNCHANGED << now, disk, env, reopened, fetcher, self, bound, terms, strategy, idx,
                    terms_with_defs, statuses, error, raised, counters >>

\* The with block is left: __exit__ runs, then the exception in flight, if
\* any, goes on to main's caller unless __exit__ returned a true value.
Exit ==
    /\ pc = "exit"
    /\ LET r == exit(fetcher, self, disk) IN
       /\ disk' = r.file
       /\ disk_writes' = disk_writes + (IF r.wrote THEN 1 ELSE 0)
       /\ close_calls' = close_calls + r.closes
       /\ raised' = IF Suppresses(r.returns) THEN NoError ELSE error
       /\ pc' = IF error # NoError /\ ~Suppresses(r.returns) THEN "raised" ELSE "done"
    /\ UNCHANGED << now, env, reopened, fetcher, self, bound, run, error, loads, posts, puts >>

\* The program is run again on the same cache file: a new DeepInfraFetcher
\* is constructed with the same credential after the first one was closed.
Reopen ==
    /\ pc \in {"done", "raised"}
    /\ fetcher = "DeepInfraFetcher"
    /\ close_calls = 1
    /\ LET r == init(self.api_key, disk, now) IN
       /\ reopened' = r.self
       /\ loads' = loads + r.loads
    /\ pc' = "reopened"
    /\ UNCHANGED << now, disk, env, fetcher, self, bound, run, error, raised,
                    close_calls, posts, puts, disk_writes >>

Next ==
    \/ CheckInput
    \/ GetFetcher
    \/ Construct
    \/ Enter
    \/ LoadTerms
    \/ GetOutputStrategy
    \/ Tick
    \/ FetchRemote
    \/ FetchDummy
    \/ Output
    \/ Exit
    \/ Reopen

Spec == Init /\ [][Next]_vars

\* main at line 275 of a run with the stub fetcher, with the output
\* arguments of the command line known.
InitStrategy ==
    /\ pc = "load_terms"
    /\ now = 0
    /\ disk \in InitFiles
    /\ env_key \in ApiKeys
    /\ fetcher_arg = "dummy"
    /\ input_exists = TRUE
    /\ out_mode \in OutModes
    /\ out_ext \in Extensions
    /\ fetcher = "DummyFetcher"
    /\ self = NoSelf
    /\ bound = enter("DummyFetcher")
    /\ terms = <<>>
    /\ strategy = "none"
    /\ idx = 0
    /\ terms_with_defs = <<>>
    /\ statuses = <<>>
    /\ sink = <<>>
    /\ error = NoError
    /\ raised = NoError
    /\ close_calls = 0
    /\ loads = 0
    /\ posts = [t \in Terms |-> 0]
    /\ puts = 0
    /\ disk_writes = 0
    /\ reopened = NoSelf

\* main, lines 275-276
NextStrategy ==
    \/ LoadTerms
    \/ GetOutputStrategy

SpecStrategy == InitStrategy /\ [][NextStrategy]_vars

\* The with block is left and the write made by close() is cut short: the
\* I/O error leaves main in place of whatever was unwinding.
ExitInterrupted ==
    /\ pc = "exit"
    /\ fetcher = "DeepInfraFetcher"
    /\ self.dirty
    /\ LET r == save_cache_interrupted(self, disk) IN
       /\ disk' = r.file
       /\ disk_writes' = disk_writes + (IF r.wrote THEN 1 ELSE 0)
    /\ close_calls' = close_calls + 1
    /\ raised' = "OSError"
    /\ pc' = "raised"
    /\ UNCHANGED << now, env, reopened, fetcher, self, bound, run, error, loads,
                    posts, puts >>

\* One iteration of generate_output's loop in which the write made by the
\* periodic flush is cut short: the I/O error leaves fetch and the loop,
\* nothing is appended for the term, and the with block is left.
FetchInterrupted ==
    /\ pc = "fetch"
    /\ idx < Len(terms)
    /\ fetcher = "DeepInfraFetcher"
    /\ \E resp \in Responses :
         LET term == terms[idx + 1]
             r == fetch_success_interrupted(self, disk, term, resp, now, now)
         IN  /\ ~cache_hit(self, term)
             /\ resp.status = StatusOK
             /\ r.raised # NoError
             /\ self' = r.self
             /\ disk' = r.file
             /\ disk_writes' = disk_writes + (IF r.wrote THEN 1 ELSE 0)
             /\ posts' = [posts EXCEPT ![term] = @ + r.posted]
             /\ puts' = puts + (IF r.put THEN 1 ELSE 0)
             /\ error' = r.raised
             /\ pc' = "exit"
    /\ UNCHANGED << now, env, reopened, fetcher, bound, terms, strategy, idx,
                    terms_with_defs, statuses, sink, raised, close_calls, loads >>

\* The program on a machine where a write of the cache file can be cut
\* short, in the periodic flush of a fetch or in close().
NextFault ==
    \/ Next
    \/ FetchInterrupted
    \/ ExitInterrupted

SpecFault == Init /\ [][NextFault]_vars

\* ----------------------------------------------------------------- claims
FetchError == "Exception: Error fetching definition"
Remote == fetcher = "DeepInfraFetcher"
\* The with block has been left.
Closed == pc \in {"done", "raised"} /\ bound # "none"

RECURSIVE SumOver(_, _)
SumOver(f, S) ==
    IF S = {} THEN 0
    ELSE LET x == CHOOSE y \in S : TRUE IN f[x] + SumOver(f, S \ {x})

TotalPosts == SumOver(posts, Terms)

\* What reading the cache file gives when the file holds the mapping d.
AsRead(d) == [raised |-> NoError, items |-> DictItems(d)]

\* C1: when the remote call for the k-th term fails in a run that uses the
\* remote fetcher inside the with block, then once the block has been left
\* the cache file holds, for each of the k-1 terms fetched before, an entry
\* whose text renders to the definition the pipeline got for it, and it
\* holds everything the in-memory cache holds (so what was loaded as well).
C1_FlushOnFetchError ==
    (Remote /\ Closed /\ error = FetchError) =>
        /\ OnDisk(disk).raised = NoError
        /\ \A i \in 1..idx :
             \E e \in OnDisk(disk).items :
                e[1] = terms[i] /\ markdown(e[2]) = terms_with_defs[i][2]
        /\ DictItems(self.cache) \subseteq OnDisk(disk).items

\* The request for the third term failed after two definitions were fetched
\* remotely, and the block has been left.
C1_Witness ==
    /\ Remote /\ Closed /\ error = FetchError
    /\ idx = 2 /\ puts = 2 /\ statuses = <<"API", "API">>

\* C2: one fetcher never posts twice for the same term, and a term that was
\* fetched earlier in the run is reported as served from the cache.
C2_OneRequestPerTerm ==
    Remote =>
        /\ \A t \in Terms : posts[t] <= 1
        /\ \A i, j \in 1..idx :
             (i < j /\ terms[i] = terms[j]) => statuses[j] = "cache"

\* A term was fetched remotely, another term was fetched, then the first
\* term was fetched again.
C2_Witness ==
    /\ Remote /\ idx = 3
    /\ terms[1] = terms[3] /\ terms[2] # terms[1]
    /\ statuses = <<"API", "API", "cache">>
    /\ posts[terms[1]] = 1

\* C3: when every fetch succeeds the sink gets one pair per input term, the
\* i-th pair holding the i-th term, and equal terms get equal definitions.
C3_OrderPreserved ==
    \A k \in 1..Len(sink) :
        /\ Len(sink[k]) = Len(terms)
        /\ \A i \in 1..Len(terms) : sink[k][i][1] = terms[i]
        /\ \A i, j \in 1..Len(terms) :
             terms[i] = terms[j] => sink[k][i][2] = sink[k][j][2]

\* The remote fetcher resolved a term remotely and again from the cache, and
\* the sink got the list.
C3_Witness ==
    /\ Remote /\ Len(sink) = 1 /\ Len(terms) = 3
    /\ terms[1] = terms[3] /\ terms[2] # terms[1]
    /\ statuses = <<"API", "API", "cache">>

\* C4: a flush writes the cache file only after a put, a flush without any
\* put since loading leaves the file as it is, and close after a put writes.
C4_DirtyFlushGating ==
    [][ /\ (disk_writes' # disk_writes) => puts' > 0
        /\ (puts' = 0) => disk' = disk
        /\ (Remote /\ close_calls' # close_calls) =>
              ((disk_writes' = disk_writes + 1) <=> (puts > 0)) ]_vars

\* A remote fetcher was closed after serving a term from a loaded cache
\* without any put, and nothing was written.
C4_Witness ==
    /\ Remote /\ Closed /\ idx > 0 /\ puts = 0 /\ disk_writes = 0 /\ disk.exists

\* C5: once close() has returned, the mapping in the cache file equals the
\* mapping in memory.
C5_CloseSavesAll ==
    (Remote /\ Closed) => OnDisk(disk) = AsRead(self.cache)

\* Closed after a periodic flush that was followed by one more put.
C5_Witness ==
    /\ Remote /\ Closed /\ puts = 3 /\ disk_writes = 2
    /\ self.last_save_timestamp > 0
    /\ statuses[3] = "API"

\* C6: while a remote fetcher exists, every entry of the cache file is an
\* entry of the in-memory cache, and each write of the file leaves the two
\* mappings equal.
C6_MemorySupersetOfDisk ==
    /\ [](Remote => /\ OnDisk(disk).raised = NoError
                     /\ OnDisk(disk).items \subseteq DictItems(self.cache))
    /\ [][ (disk_writes' # disk_writes) =>
              OnDisk(disk') = AsRead(self'.cache) ]_vars

\* A periodic flush has written the file and a later put has made the
\* in-memory cache strictly larger than the file.
C6_Witness ==
    /\ Remote /\ pc = "fetch" /\ disk_writes = 1
    /\ OnDisk(disk).items # {}
    /\ OnDisk(disk) # AsRead(self.cache)

\* C7: the with statement binds the fetcher itself; close() has not run
\* while the block is executing and has run exactly once when it has been
\* left; an exception that was unwinding the block is the exception that
\* leaves main.
C7_ScopedRelease ==
    /\ (pc \in {"load_terms", "strategy", "fetch", "exit"}) =>
          (bound = fetcher /\ fetcher # "none" /\ close_calls = 0)
    /\ Closed =>
          /\ bound = fetcher
          /\ close_calls = 1
          /\ raised = error
          /\ (error # NoError) => pc = "raised"

\* A fetch error has left a block that used the remote fetcher.
C7_Witness ==
    Remote /\ Closed /\ pc = "raised" /\ raised = FetchError /\ close_calls = 1

\* C8: the sink is called at most once, with the list of all input terms'
\* pairs, and only if no request failed; a run in which a request failed
\* ends with the error raised and the sink never called.
C8_NoPartialOutput ==
    /\ Len(sink) <= 1
    /\ (sink # <<>>) =>
          /\ idx = Len(terms)
          /\ sink[1] = terms_with_defs
          /\ Len(sink[1]) = Len(terms)
          /\ TotalPosts = puts
          /\ error = NoError
    /\ (TotalPosts # puts) =>
          /\ sink = <<>>
          /\ error = FetchError
          /\ pc \in {"exit", "raised", "reopened"}
          /\ (pc \in {"raised", "reopened"} => raised = FetchError)

\* The request for the third term failed and the run ended without output.
C8_Witness ==
    /\ pc = "raised" /\ raised = FetchError /\ idx = 2 /\ Len(terms) = 3
    /\ sink = <<>> /\ TotalPosts = puts + 1

\* C9: with an absent or empty credential no remote fetcher comes to exist:
\* the cache file is never loaded, no term is fetched, nothing is posted,
\* and the attempt ends in a ValueError.
C9_CredentialChecked ==
    (fetcher_arg = "deepinfra" /\ Falsy(env_key)) =>
        /\ loads = 0
        /\ fetcher = "none"
        /\ self = NoSelf
        /\ idx = 0
        /\ TotalPosts = 0
        /\ pc \in {"main", "get_fetcher", "init", "exit1", "raised"}
        /\ (pc = "raised") =>
              raised \in {"ValueError: API key is required.",
                          "ValueError: API key not found."}

\* The constructor itself has refused an empty or absent credential.
C9_Witness ==
    /\ pc = "raised" /\ raised = "ValueError: API key is required."
    /\ Falsy(env_key) /\ loads = 0

\* C10: a cache file that does not parse makes the construction of the
\* remote fetcher fail with the parser's error: no fetcher comes to exist,
\* no term is fetched, and the file stays as it is.
C10_UnparseableCacheIsFatal ==
    /\ []((disk = GarbageFile /\ fetcher_arg = "deepinfra") =>
            /\ fetcher = "none"
            /\ self = NoSelf
            /\ idx = 0
            /\ TotalPosts = 0
            /\ disk_writes = 0
            /\ pc \in {"main", "get_fetcher", "init", "exit1", "raised"}
            /\ (pc = "raised" /\ ~Falsy(env_key)) => raised = "JSONDecodeError")
    /\ [][ (disk = GarbageFile) => (disk' = GarbageFile) ]_vars

\* The constructor has read an unparseable file and raised.
C10_Witness ==
    /\ pc = "raised" /\ raised = "JSONDecodeError" /\ loads = 1
    /\ disk = GarbageFile /\ fetcher = "none"

\* C11: the stub fetcher gives every term the one definition made from that
\* term, whatever was fetched before, always reports that the definition did
\* not come from a cache, keeps no state, and neither its fetch nor its
\* close touches the cache file or the counters of the remote fetcher.
C11_StubDeterministic ==
    /\ []((fetcher = "DummyFetcher") =>
            /\ \A i \in 1..idx :
                 /\ statuses[i] = "API"
                 /\ terms_with_defs[i][2] =
                        <<"Dummy definition for term \"">> \o terms[i] \o <<"\"">>
            /\ \A i, j \in 1..idx :
                 (terms[i] = terms[j]) => terms_with_defs[i][2] = terms_with_defs[j][2]
            /\ self = NoSelf)
    /\ [][ (fetcher = "DummyFetcher") =>
              /\ disk' = disk
              /\ self' = self
              /\ << loads, posts, puts, disk_writes >>' =
                    << loads, posts, puts, disk_writes >> ]_vars

\* The stub fetcher resolved the same term twice, with another term in
\* between, and was closed.
C11_Witness ==
    /\ fetcher = "DummyFetcher" /\ Closed /\ close_calls = 1
    /\ idx = 3 /\ terms[1] = terms[3] /\ terms[2] # terms[1]

\* C12: a fetcher constructed on the cache file that a closed fetcher left
\* behind holds exactly the keys and values the closed fetcher held.
C12_CacheRoundTrip ==
    (pc = "reopened") =>
        /\ reopened.api_key = self.api_key
        /\ DictKeys(reopened.cache) = DictKeys(self.cache)
        /\ DictItems(reopened.cache) = DictItems(self.cache)
        /\ Len(reopened.cache) = Len(self.cache)

\* A cache of one loaded and two fetched definitions was flushed and loaded
\* again by a new fetcher.
C12_Witness ==
    /\ pc = "reopened" /\ puts = 2 /\ disk_writes >= 1
    /\ Len(reopened.cache) = 3

\* C13: an --out_mode given on the command line selects the strategy of that
\* mode whatever the extension of the output path is; the extension decides
\* only when no --out_mode is given.
C13_ExplicitModeWins ==
    (pc \in {"fetch", "exit"} /\ out_mode # Unread) =>
        /\ (out_mode = "anki") => strategy = "AnkiOutputStrategy"
        /\ (out_mode = "debug") => strategy = "DebugOutputStrategy"
        /\ (out_mode = "<None>" /\ out_ext = ".apkg") => strategy = "AnkiOutputStrategy"
        /\ (out_mode = "<None>" /\ out_ext = ".txt") => strategy = "DebugOutputStrategy"

\* C14: a write of the cache file by _save_cache leaves the dirty flag
\* false (so that a flush that follows without a put writes nothing).
C14_FlushClearsDirty ==
    [][ (disk_writes' # disk_writes) => ~self'.dirty ]_vars

\* C15: a fetch writes the cache file only if the cache is dirty and at
\* least SaveInterval has passed since the timestamp; the timestamp is the
\* clock reading at construction and is moved, to the reading made once the
\* file is written, only by a fetch that flushes; a miss before the interval
\* has passed leaves the file alone.
C15_PeriodicFlushGating ==
    [][ /\ (pc = "fetch" /\ disk_writes' # disk_writes) =>
              /\ self'.dirty
              /\ now - self.last_save_timestamp >= SaveInterval
              /\ self'.last_save_timestamp = now'
              /\ now' >= now
        /\ (pc = "fetch" /\ puts' # puts
                /\ now - self.last_save_timestamp < SaveInterval) =>
              /\ disk' = disk
              /\ disk_writes' = disk_writes
              /\ self'.last_save_timestamp = self.last_save_timestamp
        /\ (pc = "init" /\ fetcher' = "DeepInfraFetcher") =>
              self'.last_save_timestamp = now
        /\ (self'.last_save_timestamp # self.last_save_timestamp) =>
              \/ pc = "init"
              \/ (pc = "fetch" /\ disk_writes' # disk_writes) ]_vars

\* A periodic flush, tested at one clock reading, moved the timestamp to the
\* later reading made after the write, and a later miss, made before the
\* interval had passed again, left the file without the new entry.
C15_Witness ==
    /\ Remote /\ pc = "fetch" /\ disk_writes = 1 /\ puts >= 2
    /\ self.last_save_timestamp = SaveInterval + 2
    /\ now - self.last_save_timestamp < SaveInterval
    /\ statuses[idx] = "API"
    /\ OnDisk(disk).raised = NoError
    /\ ~(\E e \in OnDisk(disk).items : e[1] = terms[idx])

\* C16: fetching a term that is in the cache posts nothing and changes
\* neither the in-memory cache, the dirty flag, the timestamp nor the file;
\* it returns the rendering of the cached text with the from-cache flag.
C16_HitHasNoEffect ==
    [][ (/\ Remote /\ pc = "fetch" /\ idx < Len(terms)
         /\ idx' = idx + 1
         /\ DictHas(self.cache, terms[idx + 1])) =>
            /\ self' = self
            /\ disk' = disk
            /\ posts' = posts
            /\ puts' = puts
            /\ disk_writes' = disk_writes
            /\ statuses'[idx'] = "cache"
            /\ terms_with_defs'[idx'] =
                  << terms[idx'], markdown(DictGet(self.cache, terms[idx'])) >> ]_vars

\* A term fetched remotely earlier in the run, which left the cache dirty
\* and unsaved, has been served from the cache.
C16_Witness ==
    /\ Remote /\ pc = "fetch" /\ idx = 2
    /\ statuses = <<"API", "cache">>
    /\ self.dirty /\ disk_writes = 0 /\ TotalPosts = 1

KeysOnDisk(file) == {e[1] : e \in OnDisk(file).items}

\* C17: no step removes a key from the in-memory cache or from the mapping
\* held by the cache file.
C17_AppendOnly ==
    [][ /\ DictKeys(self.cache) \subseteq DictKeys(self'.cache)
        /\ (OnDisk(disk).raised = NoError) =>
              /\ OnDisk(disk').raised = NoError
              /\ KeysOnDisk(disk) \subseteq KeysOnDisk(disk') ]_vars

\* A file that held one entry holds three after two fetches and a close.
C17_Witness ==
    /\ Remote /\ Closed /\ puts = 2
    /\ OnDisk(disk).raised = NoError
    /\ Cardinality(KeysOnDisk(disk)) = 3
    /\ Cardinality(DictKeys(self.cache)) = 3

\* C18: one step of the pipeline posts at most one request, and once a
\* request has failed nothing more is posted and no further term is fetched.
C18_NoRetries ==
    [][ /\ TotalPosts' <= TotalPosts + 1
        /\ (TotalPosts # puts) =>
              /\ posts' = posts
              /\ idx' = idx
              /\ error = FetchError ]_vars

\* The request for the second of three terms failed and the run ended with
\* two requests posted in all.
C18_Witness ==
    /\ Remote /\ pc = "raised" /\ raised = FetchError
    /\ Len(terms) = 3 /\ idx = 1 /\ TotalPosts = 2 /\ puts = 1
    /\ posts[terms[2]] = 1

\* C19: whatever happens to a flush, the cache file afterwards holds either
\* what it held before or the complete in-memory mapping.
C19_AtomicFlush ==
    [][ \/ disk' = disk
        \/ (disk'.exists /\ OnDisk(disk') = AsRead(self'.cache)) ]_vars

\* C20: whenever the in-memory mapping of a remote fetcher differs from the
\* mapping held by the cache file, the dirty flag is set.
C20_UnsavedImpliesDirty ==
    Remote => ((AsRead(self.cache) # OnDisk(disk)) => self.dirty)

\* A definition has been fetched and is not yet in the file.
C20_Witness ==
    /\ Remote /\ pc = "exit" /\ self.dirty
    /\ AsRead(self.cache) # OnDisk(disk)
    /\ puts = 1

====
